---- MODULE Spec2Model ----
(***************************************************************************)
(* Model of the vending-machine controller of the State pattern's          *)
(* real-world example: VendingMachineContext and its three State classes   *)
(* (InitialReadyState, TransactionStarted, OutOfStock).                    *)
(*                                                                         *)
(* A context is the record [state, credit, inventory, log], log being the  *)
(* lines transitionTo has written to the console during the call; a method *)
(* that may throw yields [ctx, error], where ctx is the context as the     *)
(* throw (or the return) leaves it and error is the message thrown ("" for *)
(* none).                                                                  *)
(***************************************************************************)
EXTENDS Integers, Sequences, FiniteSets, TLC

VARIABLES state, credit, inventory, call, prev, inserted,
          log, returned, observed, scenario, other, units, successes

vmVars == <<state, credit, inventory, call, prev, inserted,
            log, returned, observed, scenario, other, units, successes>>

\* The weather-service proxy of the Proxy pattern's real-world example.
VARIABLES now, ticks, cachedResponse, cacheDate, awaiting, realCallDates,
          requests, completed

proxyVars == <<now, ticks, cachedResponse, cacheDate, awaiting, realCallDates,
               requests, completed>>

\* The authentication handlers of the Chain of Responsibility pattern's
\* real-world example.
VARIABLES nextHandler, handled

chainVars == <<nextHandler, handled>>

\* The employee and its caretaker of the Memento pattern's real-world
\* example.
VARIABLES salary, monthlyExpensesLimit, employeeMementos, backups, mementoCall

mementoVars ==
    <<salary, monthlyExpensesLimit, employeeMementos, backups, mementoCall>>

\* The document of the State pattern's document example.
VARIABLES documentState, console, documentCall

documentVars == <<documentState, console, documentCall>>

\* The shipment of the Composite pattern's real-world example.
VARIABLES childrenPackages, packageCall

compositeVars == <<childrenPackages, packageCall>>

elsewhere ==
    <<proxyVars, chainVars, mementoVars, documentVars, compositeVars>>
vars == <<vmVars, elsewhere>>

(***************************************************************************)
(* Bounds of the model.                                                    *)
(***************************************************************************)
MaxCredit == 40
MaxStock == 2
MaxTicks == 5
MaxRequests == 3
MaxMementos == 3
MaxLines == 7
MaxChildren == 3

(***************************************************************************)
(* Constants of the example.                                               *)
(***************************************************************************)
SODA == [name |-> "Soda", value |-> 15]
NUTS == [name |-> "Nuts", value |-> 25]
NICKEL == [name |-> "nickel", value |-> 5]
DIME == [name |-> "dime", value |-> 10]

\* A third product, for machines that stock more than the example's two.
GUM == [name |-> "Gum", value |-> 5]

Products == {SODA, NUTS, GUM}
Coins == {NICKEL, DIME}

InventoryItem(product, items) == [product |-> product, items |-> items]

INITIAL_INVENTORY == <<InventoryItem(SODA, 2), InventoryItem(NUTS, 0)>>

\* The inventories a machine is built with. The example seeds
\* INITIAL_INVENTORY; the model takes every value of the Inventory type over
\* the products with at most one entry per product name and counts in
\* 0..MaxStock, so that a product without an entry, a machine built empty and
\* a machine with several products in stock are covered as well.
Inventories ==
    {<<>>}
    \cup {<<InventoryItem(p, n)>> : p \in Products, n \in 0..MaxStock}
    \cup {<<InventoryItem(SODA, a), InventoryItem(NUTS, b)>> :
              a \in 0..MaxStock, b \in 0..MaxStock}
    \cup {<<InventoryItem(SODA, a), InventoryItem(NUTS, b), InventoryItem(GUM, c)>> :
              a \in 0..MaxStock, b \in 0..MaxStock, c \in 0..MaxStock}
    \cup {INITIAL_INVENTORY}

(***************************************************************************)
(* The State classes, named as constructor.name prints them.               *)
(***************************************************************************)
InitialReadyState == "InitialReadyState"
TransactionStarted == "TransactionStarted"
OutOfStock == "OutOfStock"

(***************************************************************************)
(* The errors, identified by the message they are constructed with.        *)
(***************************************************************************)
NoError == ""
NoCreditError == "You should insert coins before selecting the product"
InsufficientCreditError == "You are trying to buy a product with price ... but your credit is only ..."
OutOfStockError == "No ... products left, select another one"
StopInsertingCoins == "Stop inserting coins, we completely run out of stock"
StopSelectingProducts == "Stop selecting products, we completely run of stock"
MachineOutOfStockError == {StopInsertingCoins, StopSelectingProducts}

Return(ctx) == [ctx |-> ctx, error |-> NoError]
Throw(ctx, message) == [ctx |-> ctx, error |-> message]

(***************************************************************************)
(* VendingMachineContext                                                   *)
(***************************************************************************)
\* Variant: the coin is credited twice.
addCredit_Twice(ctx, amount) == [ctx EXCEPT !.credit = @ + amount + amount]

addCredit(ctx, amount) == [ctx EXCEPT !.credit = @ + amount]

resetCredit(ctx) == [ctx EXCEPT !.credit = 0]

\* Variant: an entry with no items left still counts as stock.
hasStockOf_Zero(ctx, product) ==
    \E i \in 1..Len(ctx.inventory) :
        /\ ctx.inventory[i].product.name = product.name
        /\ ctx.inventory[i].items >= 0

\* Variant: the stock only counts if the credit pays for the product.
hasStockOf_Paid(ctx, product) ==
    \E i \in 1..Len(ctx.inventory) :
        /\ ctx.inventory[i].product.name = product.name
        /\ ctx.inventory[i].items > 0
        /\ ctx.credit >= product.value

\* Variant: the stock of any product counts.
hasStockOf_AnyName(ctx, product) ==
    \E i \in 1..Len(ctx.inventory) : ctx.inventory[i].items > 0

hasStockOf(ctx, product) ==
    \E i \in 1..Len(ctx.inventory) :
        /\ ctx.inventory[i].product.name = product.name
        /\ ctx.inventory[i].items > 0

isOutOfStock(ctx) ==
    ~ \E i \in 1..Len(ctx.inventory) : ctx.inventory[i].items > 0

\* Array.prototype.find: the first entry of that product name.
find(items, name) ==
    items[CHOOSE i \in 1..Len(items) :
              /\ items[i].product.name = name
              /\ \A j \in 1..(i - 1) : items[j].product.name # name]

\* Variant: nothing is filtered out.
filter_All(items, name) == items

\* Array.prototype.filter: the entries of every other product name, in order.
RECURSIVE filter(_, _)
filter(items, name) ==
    IF items = <<>> THEN <<>>
    ELSE IF Head(items).product.name # name
         THEN <<Head(items)>> \o filter(Tail(items), name)
         ELSE filter(Tail(items), name)

\* The successful branch of dispenseProduct, the credit left as `left`.
Dispensed(ctx, product, left) ==
    LET inventoryItem == find(ctx.inventory, product.name)
        newInventoryItem == InventoryItem(product, inventoryItem.items - 1)
        restOfInventory == filter(ctx.inventory, product.name)
    IN  Return([ctx EXCEPT !.inventory = restOfInventory \o <<newInventoryItem>>,
                           !.credit = left])

\* Variant: the credit is reset before the stock is looked at.
dispenseProduct_ResetFirst(ctx, product) ==
    IF product.value > ctx.credit
    THEN Throw(ctx, InsufficientCreditError)
    ELSE IF ~hasStockOf(ctx, product)
    THEN Throw(resetCredit(ctx), OutOfStockError)
    ELSE Dispensed(ctx, product, 0)

\* Variant: the overpayment is kept as credit.
dispenseProduct_MakeChange(ctx, product) ==
    IF product.value > ctx.credit
    THEN Throw(ctx, InsufficientCreditError)
    ELSE IF ~hasStockOf(ctx, product)
    THEN Throw(ctx, OutOfStockError)
    ELSE Dispensed(ctx, product, ctx.credit - product.value)

\* Variant: a credit equal to the price is refused.
dispenseProduct_Strict(ctx, product) ==
    IF product.value >= ctx.credit
    THEN Throw(ctx, InsufficientCreditError)
    ELSE IF ~hasStockOf(ctx, product)
    THEN Throw(ctx, OutOfStockError)
    ELSE Dispensed(ctx, product, 0)

\* Variant: a product is refused while any entry of the inventory is empty.
dispenseProduct_AnyEmpty(ctx, product) ==
    IF product.value > ctx.credit
    THEN Throw(ctx, InsufficientCreditError)
    ELSE IF \/ ~hasStockOf(ctx, product)
            \/ \E i \in 1..Len(ctx.inventory) : ctx.inventory[i].items = 0
    THEN Throw(ctx, OutOfStockError)
    ELSE Dispensed(ctx, product, 0)

\* Variant: the stock is looked at before the credit.
dispenseProduct_StockFirst(ctx, product) ==
    IF ~hasStockOf(ctx, product)
    THEN Throw(ctx, OutOfStockError)
    ELSE IF product.value > ctx.credit
    THEN Throw(ctx, InsufficientCreditError)
    ELSE Dispensed(ctx, product, 0)

dispenseProduct(ctx, product) ==
    IF product.value > ctx.credit
    THEN Throw(ctx, InsufficientCreditError)
    ELSE IF ~hasStockOf(ctx, product)
    THEN Throw(ctx, OutOfStockError)
    ELSE LET inventoryItem == find(ctx.inventory, product.name)
             newInventoryItem == InventoryItem(product, inventoryItem.items - 1)
             restOfInventory == filter(ctx.inventory, product.name)
         IN  Return(resetCredit(
                 [ctx EXCEPT !.inventory = restOfInventory \o <<newInventoryItem>>]))

\* `Context: Transition to ${state.constructor.name}.`, as the parts of the
\* template literal.
TransitionMessage(newState) == <<"Context: Transition to ", newState, ".">>

\* Variant: the line names the state that is left.
transitionTo_Prior(ctx, newState) ==
    [ctx EXCEPT !.log = Append(@, TransitionMessage(ctx.state)),
                !.state = newState]

transitionTo(ctx, newState) ==
    [ctx EXCEPT !.log = Append(@, TransitionMessage(newState)),
                !.state = newState]

(***************************************************************************)
(* InitialReadyState                                                       *)
(***************************************************************************)
\* Variant: the transition is left out.
InitialReadyState_insertCoin_Stay(ctx, coin) ==
    Return(addCredit(ctx, coin.value))

InitialReadyState_insertCoin(ctx, coin) ==
    Return(transitionTo(addCredit(ctx, coin.value), TransactionStarted))

\* Variant: an empty machine is noticed when a product is selected.
InitialReadyState_selectProduct_Empty(ctx, product) ==
    IF isOutOfStock(ctx)
    THEN Return(transitionTo(ctx, OutOfStock))
    ELSE Throw(ctx, NoCreditError)

\* Variant: the selection is handed to the context as in a transaction.
InitialReadyState_selectProduct_Dispense(ctx, product) ==
    dispenseProduct(ctx, product)

InitialReadyState_selectProduct(ctx, product) ==
    Throw(ctx, NoCreditError)

(***************************************************************************)
(* TransactionStarted                                                      *)
(***************************************************************************)
TransactionStarted_insertCoin(ctx, coin) ==
    Return(addCredit(ctx, coin.value))

\* Variant: only the stock of the selected product is looked at.
TransactionStarted_selectProduct_PerProduct(ctx, product) ==
    LET dispensed == dispenseProduct(ctx, product)
    IN  IF dispensed.error # NoError
        THEN dispensed
        ELSE IF ~hasStockOf(dispensed.ctx, product)
             THEN Return(transitionTo(dispensed.ctx, OutOfStock))
             ELSE Return(transitionTo(dispensed.ctx, InitialReadyState))

TransactionStarted_selectProduct(ctx, product) ==
    LET dispensed == dispenseProduct(ctx, product)
    IN  IF dispensed.error # NoError
        THEN dispensed
        ELSE IF isOutOfStock(dispensed.ctx)
             THEN Return(transitionTo(dispensed.ctx, OutOfStock))
             ELSE Return(transitionTo(dispensed.ctx, InitialReadyState))

(***************************************************************************)
(* OutOfStock                                                              *)
(***************************************************************************)
\* Variant: the coin is still credited.
OutOfStock_insertCoin_Credit(ctx, coin) ==
    Return(addCredit(ctx, coin.value))

OutOfStock_insertCoin(ctx, coin) ==
    Throw(ctx, StopInsertingCoins)

OutOfStock_selectProduct(ctx, product) ==
    Throw(ctx, StopSelectingProducts)

(***************************************************************************)
(* The context delegates to the current state.                             *)
(***************************************************************************)
insertCoin(ctx, coin) ==
    CASE ctx.state = InitialReadyState -> InitialReadyState_insertCoin(ctx, coin)
      [] ctx.state = TransactionStarted -> TransactionStarted_insertCoin(ctx, coin)
      [] ctx.state = OutOfStock -> OutOfStock_insertCoin(ctx, coin)

selectProduct(ctx, product) ==
    CASE ctx.state = InitialReadyState -> InitialReadyState_selectProduct(ctx, product)
      [] ctx.state = TransactionStarted -> TransactionStarted_selectProduct(ctx, product)
      [] ctx.state = OutOfStock -> OutOfStock_selectProduct(ctx, product)

(***************************************************************************)
(* ProxyWeatherService and RealWeatherServiceSDK.                          *)
(*                                                                         *)
(* `now` is Date.now() in milliseconds. An undefined field is <<>> and a   *)
(* defined one <<value>>. `awaiting` holds the calls of request() that     *)
(* wait for the real service, `realCallDates` the dates at which the real  *)
(* service was called, `requests` the number of calls of request() so far  *)
(* and `completed` the last call of request() that has returned.           *)
(***************************************************************************)
expirationTimeInMillis == 24 * 60 * 60 * 1000

\* setTimeout(() => resolve(randomWeatherForecast), 1000)
RealServiceDelay == 1000

\* The forecasts the real service draws with Math.random().
Forecasts ==
    { [avgTemperature |-> 7, maxPrecipitationProbability |-> 80],
      [avgTemperature |-> 28, maxPrecipitationProbability |-> 10] }

\* The time that passes between two events of the program.
Delays == {1, RealServiceDelay, expirationTimeInMillis}

Proxy == [cachedResponse |-> cachedResponse, cacheDate |-> cacheDate]

\* Variant: a response is expired from the expiration time on.
isCacheExpired_AtLimit(proxy, date) ==
    IF proxy.cachedResponse # <<>>
    THEN date >= proxy.cacheDate[1] + expirationTimeInMillis
    ELSE TRUE

isCacheExpired(proxy, date) ==
    IF proxy.cachedResponse # <<>>
    THEN date > proxy.cacheDate[1] + expirationTimeInMillis
    ELSE TRUE

setCache(proxy, weatherForecast, date) ==
    [proxy EXCEPT !.cachedResponse = <<weatherForecast>>,
                  !.cacheDate = <<date>>]

ProxyInit ==
    /\ now = 0
    /\ ticks = 0
    /\ cachedResponse = <<>>
    /\ cacheDate = <<>>
    /\ awaiting = <<>>
    /\ realCallDates = <<>>
    /\ requests = 0
    /\ completed = <<>>

\* Time passes.
Tick ==
    /\ ticks < MaxTicks
    /\ \E delay \in Delays : now' = now + delay
    /\ ticks' = ticks + 1
    /\ UNCHANGED <<cachedResponse, cacheDate, awaiting, realCallDates,
                   requests, completed>>
    /\ UNCHANGED <<vmVars, chainVars, mementoVars, documentVars,
                   compositeVars>>

\* What a call of request() hands back, with what it found when it started.
Completion(initialTime, found, calledReal, response) ==
    [initialTime |-> initialTime, found |-> found, calledReal |-> calledReal,
     response |-> response]

\* request(), up to its return or up to the await of the real service.
StartRequest ==
    /\ requests < MaxRequests
    /\ requests' = requests + 1
    /\ IF isCacheExpired(Proxy, now)
       THEN /\ \E randomWeatherForecast \in Forecasts :
                   awaiting' = Append(awaiting,
                       [initialTime |-> now, found |-> Proxy,
                        forecast |-> randomWeatherForecast,
                        due |-> now + RealServiceDelay])
            /\ realCallDates' = Append(realCallDates, now)
            /\ UNCHANGED completed
       ELSE /\ completed' = <<Completion(now, Proxy, FALSE, cachedResponse)>>
            /\ UNCHANGED <<awaiting, realCallDates>>
    /\ UNCHANGED <<now, ticks, cachedResponse, cacheDate>>
    /\ UNCHANGED <<vmVars, chainVars, mementoVars, documentVars,
                   compositeVars>>

\* The client awaits each request before it makes the next one.
Request == awaiting = <<>> /\ StartRequest

\* The timer of the real service fires: the awaiting request() goes on with
\* setCache and returns this.cachedResponse.
Resolve ==
    \E i \in 1..Len(awaiting) :
        LET request == awaiting[i]
            proxy == setCache(Proxy, request.forecast, now)
        IN  /\ now >= request.due
            /\ cachedResponse' = proxy.cachedResponse
            /\ cacheDate' = proxy.cacheDate
            /\ completed' = <<Completion(request.initialTime, request.found,
                                         TRUE, proxy.cachedResponse)>>
            /\ awaiting' = SubSeq(awaiting, 1, i - 1)
                           \o SubSeq(awaiting, i + 1, Len(awaiting))
            /\ UNCHANGED <<now, ticks, realCallDates, requests>>
            /\ UNCHANGED <<vmVars, chainVars, mementoVars, documentVars,
                   compositeVars>>

NextProxy == Tick \/ Request \/ Resolve

\* A client that does not await a request before it makes the next one.
NextProxyConcurrent == Tick \/ StartRequest \/ Resolve

(***************************************************************************)
(* The authentication handlers. A request is the record [user, apiKey,     *)
(* jwtToken], an absent property being <<>> and a present one <<value>>;   *)
(* handle yields [result, error], result being <<>> if it threw.           *)
(***************************************************************************)
BasicAuthenticationHandler == "BasicAuthenticationHandler"
ApiKeyAuthenticationHandler == "ApiKeyAuthenticationHandler"
JwtAuthenticationHandler == "JwtAuthenticationHandler"

Handlers ==
    {BasicAuthenticationHandler, ApiKeyAuthenticationHandler,
     JwtAuthenticationHandler}

Users ==
    { [name |-> n, password |-> pw] :
          n \in {"admin", "guest"}, pw \in {"password", "1234"} }

AuthenticationRequests ==
    [ user : {<<>>} \cup {<<u>> : u \in Users},
      apiKey : {<<>>, <<"my-api-key">>, <<"other-api-key">>},
      jwtToken : {<<>>, <<"my-jwt-token">>, <<"other-jwt-token">>} ]

AuthenticationResult(success, message) ==
    [success |-> success, message |-> message]

BasicMessage == "User authenticated with basic authentication."
ApiKeyMessage == "User authenticated with API key."
JwtMessage == "User authenticated with JWT token."
UnableMessage == "Unable to authenticate user."

\* Reading a property of undefined, and a recursion that does not end.
TypeError == "TypeError: Cannot read properties of undefined"
RangeError == "RangeError: Maximum call stack size exceeded"

Returns(result) == [result |-> <<result>>, error |-> ""]
Throws(error) == [result |-> <<>>, error |-> error]

\* `depth` is the number of calls of handle on the stack; the stack holds
\* more calls than the model has handlers.
MaxCallStack == Cardinality(Handlers) + 1

RECURSIVE handle(_, _, _, _)

\* AbstractAuthenticationHandler.handle
super_handle(next, handler, request, depth) ==
    IF next[handler] # <<>>
    THEN handle(next, next[handler][1], request, depth + 1)
    ELSE Returns(AuthenticationResult(FALSE, UnableMessage))

BasicAuthenticationHandler_handle(next, handler, request, depth) ==
    LET user == request.user
    IN  IF user = <<>>
        THEN Throws(TypeError)
        ELSE IF user[1].name = "admin" /\ user[1].password = "password"
             THEN Returns(AuthenticationResult(TRUE, BasicMessage))
             ELSE super_handle(next, handler, request, depth)

ApiKeyAuthenticationHandler_handle(next, handler, request, depth) ==
    IF request.apiKey = <<"my-api-key">>
    THEN Returns(AuthenticationResult(TRUE, ApiKeyMessage))
    ELSE super_handle(next, handler, request, depth)

JwtAuthenticationHandler_handle(next, handler, request, depth) ==
    IF request.jwtToken = <<"my-jwt-token">>
    THEN Returns(AuthenticationResult(TRUE, JwtMessage))
    ELSE super_handle(next, handler, request, depth)

handle(next, handler, request, depth) ==
    IF depth > MaxCallStack
    THEN Throws(RangeError)
    ELSE CASE handler = BasicAuthenticationHandler ->
                  BasicAuthenticationHandler_handle(next, handler, request, depth)
           [] handler = ApiKeyAuthenticationHandler ->
                  ApiKeyAuthenticationHandler_handle(next, handler, request, depth)
           [] handler = JwtAuthenticationHandler ->
                  JwtAuthenticationHandler_handle(next, handler, request, depth)

\* One handler of each class, none with a next handler yet.
ChainInit ==
    /\ nextHandler = [h \in Handlers |-> <<>>]
    /\ handled = <<>>

\* handler.setNext(next)
SetNext ==
    \E handler \in Handlers, next \in Handlers :
        /\ nextHandler' = [nextHandler EXCEPT ![handler] = <<next>>]
        /\ UNCHANGED handled
        /\ UNCHANGED <<vmVars, proxyVars, mementoVars, documentVars,
                     compositeVars>>

\* handler.handle(request), by the client.
Handle ==
    \E handler \in Handlers, request \in AuthenticationRequests :
        /\ handled' = << [handler |-> handler, request |-> request,
                          outcome |-> handle(nextHandler, handler, request, 1)] >>
        /\ UNCHANGED nextHandler
        /\ UNCHANGED <<vmVars, proxyVars, mementoVars, documentVars,
                     compositeVars>>

NextChain == SetNext \/ Handle

(***************************************************************************)
(* EmployeeOriginator, EmployeeMemento and EmployeeCaretaker.              *)
(*                                                                         *)
(* An employee is the record [salary, monthlyExpensesLimit], a memento the *)
(* record [state] and a caretaker the record [employee, employeeMementos]. *)
(* `backups` is what the client has seen: the employee as it was at each   *)
(* backup() that no undo() has answered yet. `mementoCall` is the client's *)
(* last call, with the number of mementos and the employee it found.       *)
(***************************************************************************)
DEFAULT_MONTHLY_EXPENSES_LIMIT == 0

\* The salaries and the limits the client passes.
Salaries == {50000, 60000, 100000}
Limits == {DEFAULT_MONTHLY_EXPENSES_LIMIT, 100}

EmployeeMemento(employeeState) == [state |-> employeeState]

Employee == [salary |-> salary, monthlyExpensesLimit |-> monthlyExpensesLimit]

Caretaker == [employee |-> Employee, employeeMementos |-> employeeMementos]

raiseSalaryTo(employee, newSalary) == [employee EXCEPT !.salary = newSalary]

raiseLimitTo(employee, newLimit) ==
    [employee EXCEPT !.monthlyExpensesLimit = newLimit]

saveSnapshot(employee) ==
    EmployeeMemento([salary |-> employee.salary,
                     monthlyExpensesLimit |-> employee.monthlyExpensesLimit])

restore(employee, memento) ==
    [employee EXCEPT !.salary = memento.state.salary,
                     !.monthlyExpensesLimit = memento.state.monthlyExpensesLimit]

backup(caretaker) ==
    [caretaker EXCEPT
        !.employeeMementos = Append(@, saveSnapshot(caretaker.employee))]

\* Variant: the oldest memento is taken (shift instead of pop).
undo_Oldest(caretaker) ==
    IF Len(caretaker.employeeMementos) = 0
    THEN caretaker
    ELSE LET employeeMementoToRestore == Head(caretaker.employeeMementos)
         IN  [employee |-> restore(caretaker.employee, employeeMementoToRestore),
              employeeMementos |-> Tail(caretaker.employeeMementos)]

\* Variant: without a memento the limit goes back to its default.
undo_Default(caretaker) ==
    IF Len(caretaker.employeeMementos) = 0
    THEN [caretaker EXCEPT
             !.employee = raiseLimitTo(@, DEFAULT_MONTHLY_EXPENSES_LIMIT)]
    ELSE LET length == Len(caretaker.employeeMementos)
             employeeMementoToRestore == caretaker.employeeMementos[length]
         IN  [employee |-> restore(caretaker.employee, employeeMementoToRestore),
              employeeMementos |->
                  SubSeq(caretaker.employeeMementos, 1, length - 1)]

undo(caretaker) ==
    IF Len(caretaker.employeeMementos) = 0
    THEN caretaker
    ELSE LET length == Len(caretaker.employeeMementos)
             employeeMementoToRestore == caretaker.employeeMementos[length]
         IN  [employee |-> restore(caretaker.employee, employeeMementoToRestore),
              employeeMementos |->
                  SubSeq(caretaker.employeeMementos, 1, length - 1)]

MementoCall(op, arg) ==
    [op |-> op, arg |-> arg, found |-> Len(employeeMementos), was |-> Employee]

\* new EmployeeOriginator('Justin Case', 50000); new EmployeeCaretaker(originator)
MementoInit ==
    /\ salary = 50000
    /\ monthlyExpensesLimit = DEFAULT_MONTHLY_EXPENSES_LIMIT
    /\ employeeMementos = <<>>
    /\ backups = <<>>
    /\ mementoCall = [op |-> "new", arg |-> 50000, found |-> 0,
                      was |-> [salary |-> 50000,
                               monthlyExpensesLimit |->
                                   DEFAULT_MONTHLY_EXPENSES_LIMIT]]

ApplyCaretaker(caretaker) ==
    /\ salary' = caretaker.employee.salary
    /\ monthlyExpensesLimit' = caretaker.employee.monthlyExpensesLimit
    /\ employeeMementos' = caretaker.employeeMementos
    /\ UNCHANGED <<vmVars, proxyVars, chainVars, documentVars, compositeVars>>

RaiseSalaryTo ==
    \E newSalary \in Salaries :
        /\ ApplyCaretaker([Caretaker EXCEPT
                              !.employee = raiseSalaryTo(@, newSalary)])
        /\ mementoCall' = MementoCall("raiseSalaryTo", newSalary)
        /\ UNCHANGED backups

RaiseLimitTo ==
    \E newLimit \in Limits :
        /\ ApplyCaretaker([Caretaker EXCEPT
                              !.employee = raiseLimitTo(@, newLimit)])
        /\ mementoCall' = MementoCall("raiseLimitTo", newLimit)
        /\ UNCHANGED backups

Backup ==
    /\ Len(employeeMementos) < MaxMementos
    /\ ApplyCaretaker(backup(Caretaker))
    /\ mementoCall' = MementoCall("backup", 0)
    /\ backups' = Append(backups, Employee)

Undo ==
    /\ ApplyCaretaker(undo(Caretaker))
    /\ mementoCall' = MementoCall("undo", 0)
    /\ backups' = SubSeq(backups, 1, Len(backups) - 1)

NextMemento == RaiseSalaryTo \/ RaiseLimitTo \/ Backup \/ Undo

(***************************************************************************)
(* Document and its states DraftState, ModerationState and PublishedState. *)
(*                                                                         *)
(* A document is the record [state, console], console being the lines the  *)
(* states have written with console.log; `documentCall` is the client's    *)
(* last call.                                                              *)
(***************************************************************************)
DraftState == "DraftState"
ModerationState == "ModerationState"
PublishedState == "PublishedState"

Document == [state |-> documentState, console |-> console]

console_log(document, line) == [document EXCEPT !.console = Append(@, line)]

changeState(document, newState) == [document EXCEPT !.state = newState]

DraftState_render(document) ==
    console_log(document, "Rendering the document in Draft state")

DraftState_publish(document) ==
    changeState(console_log(document, "Moving the document to Moderation state"),
                ModerationState)

ModerationState_render(document) ==
    console_log(document, "Rendering the document in Moderation state")

ModerationState_publish(document) ==
    changeState(console_log(document,
                            "Making the document public in Published state"),
                PublishedState)

PublishedState_render(document) ==
    console_log(document, "Rendering the document in Published state")

\* Variant: a published document goes back to being a draft.
PublishedState_publish_Draft(document) ==
    changeState(console_log(document, "Moving the document to Draft state"),
                DraftState)

PublishedState_publish(document) ==
    console_log(document,
                "The document is already in Published state. Nothing to do.")

render(document) ==
    CASE document.state = DraftState -> DraftState_render(document)
      [] document.state = ModerationState -> ModerationState_render(document)
      [] document.state = PublishedState -> PublishedState_render(document)

publish(document) ==
    CASE document.state = DraftState -> DraftState_publish(document)
      [] document.state = ModerationState -> ModerationState_publish(document)
      [] document.state = PublishedState -> PublishedState_publish(document)

\* new Document()
DocumentInit ==
    /\ documentState = DraftState
    /\ console = <<>>
    /\ documentCall = "new"

ApplyDocument(op, document) ==
    /\ Len(console) < MaxLines
    /\ documentState' = document.state
    /\ console' = document.console
    /\ documentCall' = op
    /\ UNCHANGED <<vmVars, proxyVars, chainVars, mementoVars, compositeVars>>

Render == ApplyDocument("render", render(Document))

Publish == ApplyDocument("publish", publish(Document))

NextDocument == Render \/ Publish

(***************************************************************************)
(* MultiPackageComposite and ProductLeaf.                                  *)
(*                                                                         *)
(* `childrenPackages` is the array of the main shipment, a component being *)
(* the record [title, price]; `packageCall` is the client's last call on   *)
(* the shipment.                                                           *)
(***************************************************************************)
ProductLeaf(title, price) == [title |-> title, price |-> price]

\* The components the client holds.
PackageComponents ==
    { ProductLeaf("Galaxy S68", 900), ProductLeaf("S68 Charger", 25),
      ProductLeaf("S68 Case", 15), ProductLeaf("HyperX Cloud Flight", 150) }

\* Array.prototype.indexOf: the index, from 0, of the first element that is
\* the component, and -1 if there is none.
indexOf(array, element) ==
    IF \E i \in 1..Len(array) : array[i] = element
    THEN (CHOOSE i \in 1..Len(array) :
              /\ array[i] = element
              /\ \A j \in 1..(i - 1) : array[j] # element) - 1
    ELSE -1

\* Array.prototype.splice(start, deleteCount), as the array it leaves: a
\* negative start counts from the end of the array.
splice(array, start, deleteCount) ==
    LET len == Len(array)
        relativeStart == IF start < 0
                         THEN (IF len + start > 0 THEN len + start ELSE 0)
                         ELSE (IF start < len THEN start ELSE len)
        wanted == IF deleteCount > 0 THEN deleteCount ELSE 0
        actualDeleteCount == IF wanted < len - relativeStart
                             THEN wanted ELSE len - relativeStart
    IN  SubSeq(array, 1, relativeStart)
        \o SubSeq(array, relativeStart + actualDeleteCount + 1, len)

add(array, packageComponent) == Append(array, packageComponent)

remove(array, packageComponent) ==
    LET index == indexOf(array, packageComponent)
    IN  splice(array, index, 1)

\* reduce((prev, curr) => prev + curr.getPrice(), 0)
RECURSIVE getPrice(_)
getPrice(array) ==
    IF array = <<>> THEN 0
    ELSE getPrice(SubSeq(array, 1, Len(array) - 1)) + array[Len(array)].price

PackageCall(op, arg) ==
    [op |-> op, arg |-> arg, price |-> getPrice(childrenPackages)]

\* new MultiPackageComposite('Main Shipment')
CompositeInit ==
    /\ childrenPackages = <<>>
    /\ packageCall = [op |-> "new", arg |-> ProductLeaf("Main Shipment", 0),
                      price |-> 0]

Add ==
    \E packageComponent \in PackageComponents :
        /\ Len(childrenPackages) < MaxChildren
        /\ childrenPackages' = add(childrenPackages, packageComponent)
        /\ packageCall' = PackageCall("add", packageComponent)
        /\ UNCHANGED <<vmVars, proxyVars, chainVars, mementoVars, documentVars>>

Remove ==
    \E packageComponent \in PackageComponents :
        /\ childrenPackages' = remove(childrenPackages, packageComponent)
        /\ packageCall' = PackageCall("remove", packageComponent)
        /\ UNCHANGED <<vmVars, proxyVars, chainVars, mementoVars, documentVars>>

NextComposite == Add \/ Remove

(***************************************************************************)
(* The machine and its client: `call` is the client's last call and the    *)
(* error it caught, `prev` the context as that call found it, `inserted`   *)
(* the value of the coins handed to insertCoin since the last reset of the *)
(* credit.                                                                 *)
(***************************************************************************)
Context ==
    [state |-> state, credit |-> credit, inventory |-> inventory, log |-> <<>>]

\* A second context of the same program. Its inventory field is initialised
\* with the same INITIAL_INVENTORY object as the first one's, whose items
\* property is `inventory`; `other` holds its state and its credit.
OtherContext ==
    [state |-> other.state, credit |-> other.credit, inventory |-> inventory,
     log |-> <<>>]

\* `on` is the context the call is made on: 1 for the first, 2 for the second.
Call(op, arg, error) == [on |-> 1, op |-> op, arg |-> arg, error |-> error]

NoArgument == [name |-> "", value |-> 0]

\* The calls of the example's client, in order.
Script ==
    << [op |-> "selectProduct", arg |-> NUTS],
       [op |-> "insertCoin", arg |-> DIME],
       [op |-> "selectProduct", arg |-> SODA],
       [op |-> "insertCoin", arg |-> NICKEL],
       [op |-> "selectProduct", arg |-> SODA],
       [op |-> "insertCoin", arg |-> DIME],
       [op |-> "insertCoin", arg |-> NICKEL],
       [op |-> "selectProduct", arg |-> SODA],
       [op |-> "insertCoin", arg |-> NICKEL] >>

\* `scenario` is the number of calls of Script made so far by a client that
\* has made exactly these calls on a machine built with INITIAL_INVENTORY,
\* and OffScript for every other client.
OffScript == Len(Script) + 1

Follow(op, arg) ==
    IF scenario < Len(Script) /\ Script[scenario + 1] = [op |-> op, arg |-> arg]
    THEN scenario + 1
    ELSE OffScript

\* `observed` is the first question the client has asked since the last
\* successful dispense, <<>> if it has asked none, and else <<key, answer, n>>:
\* the product name for hasStockOf or "isOutOfStock", what was returned, and
\* n = 2 once the same question has been asked again.
NotObserved == <<>>

\* `units` is the number of items the machine was built with and `successes`
\* the number of calls of selectProduct that returned without an error.
RECURSIVE TotalItems(_)
TotalItems(items) ==
    IF items = <<>> THEN 0 ELSE Head(items).items + TotalItems(Tail(items))

\* new VendingMachineContext(new InitialReadyState()); the other examples
\* as they are before their first call.
Init ==
    /\ ProxyInit
    /\ ChainInit
    /\ MementoInit
    /\ DocumentInit
    /\ CompositeInit
    /\ state = InitialReadyState
    /\ credit = 0
    /\ inventory \in Inventories
    /\ call = Call("new", [name |-> InitialReadyState, value |-> 0], NoError)
    /\ prev = [state |-> InitialReadyState, credit |-> 0, inventory |-> inventory,
               log |-> <<>>]
    /\ inserted = 0
    /\ log = <<TransitionMessage(InitialReadyState)>>
    /\ returned = <<>>
    /\ observed = NotObserved
    /\ scenario = IF inventory = INITIAL_INVENTORY THEN 0 ELSE OffScript
    /\ other = [state |-> InitialReadyState, credit |-> 0]
    /\ units = TotalItems(inventory)
    /\ successes = 0

Apply(out) ==
    /\ state' = out.ctx.state
    /\ credit' = out.ctx.credit
    /\ inventory' = out.ctx.inventory
    /\ log' = out.ctx.log
    /\ prev' = Context
    /\ returned' = <<>>
    /\ UNCHANGED <<other, units>>

InsertCoin ==
    \E coin \in Coins :
        /\ inserted + coin.value <= MaxCredit
        /\ LET out == insertCoin(Context, coin)
           IN  /\ Apply(out)
               /\ call' = Call("insertCoin", coin, out.error)
               /\ inserted' = inserted + coin.value
               /\ scenario' = Follow("insertCoin", coin)
               /\ UNCHANGED <<observed, successes, elsewhere>>

SelectProduct ==
    \E product \in Products :
        LET out == selectProduct(Context, product)
        IN  /\ Apply(out)
            /\ call' = Call("selectProduct", product, out.error)
            /\ inserted' = IF out.ctx.credit = 0 /\ out.error = NoError
                           THEN 0 ELSE inserted
            /\ scenario' = Follow("selectProduct", product)
            /\ observed' = IF state = TransactionStarted /\ out.error = NoError
                           THEN NotObserved ELSE observed
            /\ successes' = IF out.error = NoError
                            THEN successes + 1 ELSE successes
            /\ UNCHANGED elsewhere

Next == InsertCoin \/ SelectProduct

Spec == Init /\ [][Next]_vars

(***************************************************************************)
(* The client also asks the context about its stock.                       *)
(***************************************************************************)
Observe(op, arg, key, answer) ==
    /\ returned' = <<answer>>
    /\ observed' = IF observed = NotObserved THEN <<key, answer, 1>>
                   ELSE IF observed[1] = key THEN <<key, observed[2], 2>>
                   ELSE observed
    /\ call' = Call(op, arg, NoError)
    /\ prev' = Context
    /\ log' = <<>>
    /\ scenario' = OffScript
    /\ UNCHANGED <<state, credit, inventory, inserted, other, units,
                   successes, elsewhere>>

HasStockOf ==
    \E product \in Products :
        Observe("hasStockOf", product, product.name, hasStockOf(Context, product))

IsOutOfStock ==
    Observe("isOutOfStock", NoArgument, "isOutOfStock", isOutOfStock(Context))

NextObserved == InsertCoin \/ SelectProduct \/ HasStockOf \/ IsOutOfStock

SpecObserved == Init /\ [][NextObserved]_vars

(***************************************************************************)
(* Two contexts in one program, each with a client of its own.             *)
(***************************************************************************)
ApplyOther(op, arg, out) ==
    /\ other' = [state |-> out.ctx.state, credit |-> out.ctx.credit]
    /\ inventory' = out.ctx.inventory
    /\ log' = out.ctx.log
    /\ prev' = OtherContext
    /\ call' = [Call(op, arg, out.error) EXCEPT !.on = 2]
    /\ returned' = <<>>
    /\ scenario' = OffScript
    /\ observed' = NotObserved
    /\ successes' = IF op = "selectProduct" /\ out.error = NoError
                    THEN successes + 1 ELSE successes
    /\ UNCHANGED <<state, credit, inserted, units, elsewhere>>

OtherInsertCoin ==
    \E coin \in Coins :
        /\ other.credit + coin.value <= MaxCredit
        /\ ApplyOther("insertCoin", coin, insertCoin(OtherContext, coin))

OtherSelectProduct ==
    \E product \in Products :
        ApplyOther("selectProduct", product, selectProduct(OtherContext, product))

NextTwo == InsertCoin \/ SelectProduct \/ OtherInsertCoin \/ OtherSelectProduct

SpecTwo == Init /\ [][NextTwo]_vars

(***************************************************************************)
(* The other examples, next to a vending machine nobody uses.              *)
(***************************************************************************)
InitSeeded == Init /\ inventory = INITIAL_INVENTORY

SpecProxy == InitSeeded /\ [][NextProxy]_vars

SpecChain == InitSeeded /\ [][NextChain]_vars

SpecProxyConcurrent == InitSeeded /\ [][NextProxyConcurrent]_vars

SpecMemento == InitSeeded /\ [][NextMemento]_vars

SpecDocument == InitSeeded /\ [][NextDocument]_vars

SpecComposite == InitSeeded /\ [][NextComposite]_vars

(***************************************************************************)
(* The example's machine with a client that keeps going: it goes on        *)
(* inserting coins, and goes on selecting a product that is in stock and   *)
(* that the credit pays for.                                               *)
(***************************************************************************)
SelectInStock ==
    /\ SelectProduct
    /\ hasStockOf(Context, call'.arg)
    /\ call'.arg.value <= credit

SpecFair ==
    /\ InitSeeded
    /\ [][Next]_vars
    /\ WF_vars(InsertCoin)
    /\ WF_vars(SelectInStock)

(***************************************************************************)
(* Vocabulary of the properties.                                           *)
(***************************************************************************)
\* The entries of a product name, and the number of items they hold.
EntriesOf(items, name) == {i \in 1..Len(items) : items[i].product.name = name}

RECURSIVE SumItems(_, _)
SumItems(items, indices) ==
    IF indices = {} THEN 0
    ELSE LET i == CHOOSE j \in indices : TRUE
         IN  items[i].items + SumItems(items, indices \ {i})

CountOf(items, name) == SumItems(items, EntriesOf(items, name))

AllCountsZero(items) == \A i \in 1..Len(items) : items[i].items = 0

\* The step is a call of that operation (seen from the state it leaves).
Selected == call.op = "selectProduct"
Coined == call.op = "insertCoin"
Succeeded == call.error = NoError

\* The step is a selectProduct that dispensed: made in TransactionStarted
\* and returned without an error.
Dispense == state = TransactionStarted /\ Selected' /\ Succeeded'

\* The last call was a selectProduct that dispensed.
DidDispense == prev.state = TransactionStarted /\ Selected /\ Succeeded

Unchanged == state' = state /\ credit' = credit /\ inventory' = inventory

(***************************************************************************)
(* C1: the credit is never negative and never more than the value of the   *)
(* coins inserted since the last successful dispense.                      *)
(***************************************************************************)
C1_CreditBounded == credit >= 0 /\ credit <= inserted

\* Two coins in a row: the second one is added to a credit already there.
C1_Witness ==
    /\ Coined /\ Succeeded
    /\ prev.credit > 0
    /\ credit = prev.credit + call.arg.value
    /\ credit = inserted

(***************************************************************************)
(* C2: no count is ever negative; a count changes only in a successful     *)
(* dispense of that product, which lowers it by exactly 1; every other     *)
(* count stays as it is, and no count is ever raised.                      *)
(***************************************************************************)
C2_CountsNonNegative ==
    \A i \in 1..Len(inventory) : inventory[i].items >= 0

C2_CountStep ==
    \A p \in Products :
        LET before == CountOf(inventory, p.name)
            after == CountOf(inventory', p.name)
        IN  /\ (Dispense /\ call'.arg.name = p.name) => after = before - 1
            /\ after # before => (Dispense /\ call'.arg.name = p.name)
            /\ after <= before

C2_Counts == []C2_CountsNonNegative /\ [][C2_CountStep]_vars

\* Soda was dispensed while Nuts were in stock: Soda is one less, Nuts as before.
C2_Witness ==
    /\ DidDispense /\ call.arg = SODA
    /\ CountOf(inventory, "Soda") = CountOf(prev.inventory, "Soda") - 1
    /\ CountOf(inventory, "Nuts") = CountOf(prev.inventory, "Nuts")
    /\ CountOf(inventory, "Nuts") > 0

(***************************************************************************)
(* C3: in OutOfStock every insertCoin and selectProduct fails with the     *)
(* machine-out-of-stock error, leaves credit and inventory as they are,    *)
(* and the state stays OutOfStock.                                         *)
(***************************************************************************)
C3_OutOfStockStep ==
    state = OutOfStock =>
        /\ call'.error \in MachineOutOfStockError
        /\ Unchanged

C3_Terminal == [][C3_OutOfStockStep]_vars

\* A coin was refused by a machine that was out of stock already.
C3_Witness ==
    /\ prev.state = OutOfStock /\ state = OutOfStock
    /\ Coined /\ call.error = StopInsertingCoins

(***************************************************************************)
(* C4: the state changes only from InitialReady to TransactionStarted by   *)
(* an insertCoin, from TransactionStarted to InitialReady by a successful  *)
(* selectProduct that leaves stock, and from TransactionStarted to         *)
(* OutOfStock by a successful selectProduct that leaves no stock.          *)
(***************************************************************************)
C4_Edge ==
    state' # state =>
        \/ /\ state = InitialReadyState /\ state' = TransactionStarted
           /\ Coined' /\ Succeeded'
        \/ /\ state = TransactionStarted /\ state' = InitialReadyState
           /\ Selected' /\ Succeeded'
           /\ ~AllCountsZero(inventory')
        \/ /\ state = TransactionStarted /\ state' = OutOfStock
           /\ Selected' /\ Succeeded'
           /\ AllCountsZero(inventory')

C4_Edges == [][C4_Edge]_vars

\* The last item of the machine was dispensed: TransactionStarted to OutOfStock.
C4_Witness ==
    /\ DidDispense
    /\ AllCountsZero(inventory)
    /\ state = OutOfStock

(***************************************************************************)
(* C5: a selectProduct in TransactionStarted for more than the credit, or  *)
(* for a product with no stock, ends with an error and leaves state,       *)
(* credit and inventory as they were.                                      *)
(***************************************************************************)
C5_FailedSelect ==
    (/\ state = TransactionStarted /\ Selected'
     /\ \/ credit < call'.arg.value
        \/ CountOf(inventory, call'.arg.name) = 0)
    => /\ call'.error \in {InsufficientCreditError, OutOfStockError}
       /\ Unchanged

C5_FailureLeavesMachine == [][C5_FailedSelect]_vars

\* Enough credit, but the product has no stock.
C5_Witness ==
    /\ prev.state = TransactionStarted /\ Selected
    /\ prev.credit >= call.arg.value
    /\ CountOf(prev.inventory, call.arg.name) = 0
    /\ call.error = OutOfStockError
    /\ state = TransactionStarted /\ credit = prev.credit /\ credit > 0

(***************************************************************************)
(* C6: a successful selectProduct in TransactionStarted ends in OutOfStock *)
(* if every count of the machine is then 0, and in InitialReady otherwise. *)
(***************************************************************************)
C6_AfterDispense ==
    Dispense =>
        state' = IF AllCountsZero(inventory') THEN OutOfStock
                 ELSE InitialReadyState

C6_MachineWide == [][C6_AfterDispense]_vars

\* The last item of the selected product went, another product is in stock.
C6_Witness ==
    /\ DidDispense
    /\ CountOf(inventory, call.arg.name) = 0
    /\ ~AllCountsZero(inventory)
    /\ state = InitialReadyState

(***************************************************************************)
(* C7: every successful selectProduct in TransactionStarted leaves the     *)
(* credit at 0, whatever was paid above the price, and nothing else ever   *)
(* lowers the credit.                                                      *)
(***************************************************************************)
C7_CreditStep ==
    /\ Dispense => credit' = 0
    /\ credit' < credit => Dispense

C7_CreditReset == [][C7_CreditStep]_vars

\* More than the price was paid.
C7_Witness ==
    /\ DidDispense
    /\ prev.credit > call.arg.value
    /\ credit = 0

(***************************************************************************)
(* C8: a selectProduct in TransactionStarted fails with the                *)
(* insufficient-credit error exactly if the credit is less than the price. *)
(***************************************************************************)
C8_InsufficientStep ==
    (state = TransactionStarted /\ Selected') =>
        (call'.error = InsufficientCreditError <=> credit < call'.arg.value)

C8_InsufficientCredit == [][C8_InsufficientStep]_vars

\* The credit is exactly the price, and the product is dispensed.
C8_Witness ==
    /\ DidDispense
    /\ prev.credit = call.arg.value

(***************************************************************************)
(* C9, as stated: a selectProduct in TransactionStarted fails with the     *)
(* out-of-stock error if the selected product has count 0.                 *)
(***************************************************************************)
C9_Original_Step ==
    (/\ state = TransactionStarted /\ Selected'
     /\ CountOf(inventory, call'.arg.name) = 0)
    => call'.error = OutOfStockError

C9_Original == [][C9_Original_Step]_vars

(***************************************************************************)
(* C9, amended: a selectProduct in TransactionStarted fails with the       *)
(* out-of-stock error exactly if the credit covers the price and the       *)
(* selected product has count 0; with a credit below the price it fails    *)
(* with the insufficient-credit error, whatever the stock.                 *)
(***************************************************************************)
C9_OutOfStockStep ==
    (state = TransactionStarted /\ Selected') =>
        /\ call'.error = OutOfStockError <=>
               /\ credit >= call'.arg.value
               /\ CountOf(inventory, call'.arg.name) = 0
        /\ (/\ credit < call'.arg.value
            /\ CountOf(inventory, call'.arg.name) = 0) =>
               call'.error = InsufficientCreditError

C9_OutOfStock == [][C9_OutOfStockStep]_vars

\* The product has no entry at all, and the credit covers it.
C9_Witness ==
    /\ prev.state = TransactionStarted /\ Selected
    /\ EntriesOf(prev.inventory, call.arg.name) = {}
    /\ prev.credit >= call.arg.value
    /\ call.error = OutOfStockError

(***************************************************************************)
(* C10: a selectProduct in InitialReady, where the credit is 0, fails with *)
(* the no-credit error and leaves state, credit and inventory as they are. *)
(***************************************************************************)
C10_NoCreditStep ==
    /\ state = InitialReadyState => credit = 0
    /\ (state = InitialReadyState /\ Selected') =>
           /\ call'.error = NoCreditError
           /\ Unchanged

C10_NoCredit == [][C10_NoCreditStep]_vars

\* A product in stock is selected before any coin.
C10_Witness ==
    /\ prev.state = InitialReadyState /\ Selected
    /\ call.error = NoCreditError
    /\ CountOf(inventory, call.arg.name) > 0
    /\ state = InitialReadyState /\ credit = 0

(***************************************************************************)
(* C11: an insertCoin in InitialReady or in TransactionStarted adds the    *)
(* value of the coin to the credit, leaves the inventory as it is and      *)
(* leaves the machine in TransactionStarted, by one transition from        *)
(* InitialReady and by none from TransactionStarted.                       *)
(***************************************************************************)
C11_InsertStep ==
    (state \in {InitialReadyState, TransactionStarted} /\ Coined') =>
        /\ Succeeded'
        /\ credit' = credit + call'.arg.value
        /\ inventory' = inventory
        /\ state' = TransactionStarted
        /\ Len(log') = IF state = InitialReadyState THEN 1 ELSE 0

C11_InsertCoin == [][C11_InsertStep]_vars

\* The first coin: the one transition to TransactionStarted.
C11_Witness ==
    /\ Coined /\ Succeeded
    /\ prev.state = InitialReadyState /\ state = TransactionStarted
    /\ credit = call.arg.value
    /\ Len(log) = 1
    /\ inventory = prev.inventory

(***************************************************************************)
(* C12, as stated: with two contexts built from the same initial           *)
(* inventory, a successful dispense on one of them leaves every count the  *)
(* other one sees, and so its hasStockOf and isOutOfStock, as they were.   *)
(***************************************************************************)
\* What the two contexts see of their inventories.
Seen(ctx) ==
    [counts |-> [p \in Products |-> CountOf(ctx.inventory, p.name)],
     hasStockOf |-> [p \in Products |-> hasStockOf(ctx, p)],
     isOutOfStock |-> isOutOfStock(ctx)]

C12_Original_Step ==
    /\ (call'.on = 1 /\ state = TransactionStarted /\ Selected' /\ Succeeded')
           => Seen(OtherContext)' = Seen(OtherContext)
    /\ (call'.on = 2 /\ other.state = TransactionStarted /\ Selected' /\ Succeeded')
           => Seen(Context)' = Seen(Context)

C12_Original == [][C12_Original_Step]_vars

(***************************************************************************)
(* C13, as stated: every transition replaces the active state and writes   *)
(* an event that names the state that is left and the new state.           *)
(***************************************************************************)
Names(message, name) == \E i \in 1..Len(message) : message[i] = name

C13_Original_Step ==
    state' # state =>
        /\ Len(log') = 1
        /\ Names(log'[1], state)
        /\ Names(log'[1], state')

C13_Original == [][C13_Original_Step]_vars

(***************************************************************************)
(* C13, amended: every transition replaces the active state and writes one *)
(* event, which names the new state and not the state that is left; no     *)
(* event is written without a transition.                                  *)
(***************************************************************************)
C13_EventNamesState ==
    log # <<>> => (Len(log) = 1 /\ Names(log[1], state))

C13_TransitionStep ==
    /\ state' # state =>
           /\ Len(log') = 1
           /\ Names(log'[1], state')
           /\ ~Names(log'[1], state)
    /\ state' = state => log' = <<>>

C13_TransitionEvent == []C13_EventNamesState /\ [][C13_TransitionStep]_vars

\* The transition back to InitialReady after a purchase.
C13_Witness ==
    /\ prev.state = TransactionStarted /\ state = InitialReadyState
    /\ log = <<TransitionMessage(InitialReadyState)>>

(***************************************************************************)
(* C14: in TransactionStarted, a selectProduct for a product in stock and  *)
(* a price within the credit succeeds, however many other products have    *)
(* count 0.                                                                *)
(***************************************************************************)
C14_SelectStep ==
    (/\ state = TransactionStarted /\ Selected'
     /\ credit >= call'.arg.value
     /\ CountOf(inventory, call'.arg.name) > 0)
    => /\ Succeeded'
       /\ CountOf(inventory', call'.arg.name) = CountOf(inventory, call'.arg.name) - 1

C14_InStockSucceeds == [][C14_SelectStep]_vars

\* A product is dispensed while both other products had an entry with count 0.
C14_Witness ==
    /\ DidDispense
    /\ Len(prev.inventory) = Cardinality(Products)
    /\ \A p \in Products :
           p.name # call.arg.name =>
               /\ EntriesOf(prev.inventory, p.name) # {}
               /\ CountOf(prev.inventory, p.name) = 0

(***************************************************************************)
(* C15: the inventory never holds two entries of one product name; no step *)
(* adds an entry or removes the entry of a product.                        *)
(***************************************************************************)
NamesIn(items) == {items[i].product.name : i \in 1..Len(items)}

C15_OneEntryPerName ==
    \A i, j \in 1..Len(inventory) :
        inventory[i].product.name = inventory[j].product.name => i = j

C15_EntriesStep ==
    /\ NamesIn(inventory') = NamesIn(inventory)
    /\ Len(inventory') = Len(inventory)

C15_Entries == []C15_OneEntryPerName /\ [][C15_EntriesStep]_vars

\* The first of three entries was dispensed and replaced by a last entry.
C15_Witness ==
    /\ DidDispense
    /\ Len(inventory) = 3
    /\ prev.inventory[1].product.name = call.arg.name
    /\ inventory[3].product.name = call.arg.name
    /\ inventory[3].items = prev.inventory[1].items - 1

(***************************************************************************)
(* C16: hasStockOf and isOutOfStock leave credit, inventory and state as   *)
(* they are, and return what they returned before if no dispense has       *)
(* succeeded in between.                                                   *)
(***************************************************************************)
Asked == call.op \in {"hasStockOf", "isOutOfStock"}

KeyOf(c) == IF c.op = "hasStockOf" THEN c.arg.name ELSE "isOutOfStock"

C16_ObserveStep ==
    Asked' =>
        /\ Unchanged
        /\ (observed # NotObserved /\ observed[1] = KeyOf(call')) =>
               returned' = <<observed[2]>>

C16_Observers == [][C16_ObserveStep]_vars

\* hasStockOf is asked again after coins were inserted in between.
C16_Witness ==
    /\ Asked /\ call.op = "hasStockOf"
    /\ observed # NotObserved
    /\ observed[1] = call.arg.name /\ observed[3] = 2
    /\ returned = <<TRUE>>
    /\ inserted > 0 /\ credit = inserted

(***************************************************************************)
(* C17: hasStockOf is true exactly if the inventory has an entry of that   *)
(* product name with a count above 0; isOutOfStock is true exactly if      *)
(* every entry has count 0.                                                *)
(***************************************************************************)
C17_Answers ==
    /\ call.op = "hasStockOf" =>
           returned = << /\ EntriesOf(inventory, call.arg.name) # {}
                         /\ CountOf(inventory, call.arg.name) > 0 >>
    /\ call.op = "isOutOfStock" =>
           returned = <<AllCountsZero(inventory)>>

\* A product without an entry is asked for in a machine with stock.
C17_Witness ==
    /\ call.op = "hasStockOf"
    /\ EntriesOf(inventory, call.arg.name) = {}
    /\ returned = <<FALSE>>
    /\ ~AllCountsZero(inventory)

(***************************************************************************)
(* C18: on a machine with Soda 15 (2 items) and Nuts 25 (0 items), the     *)
(* calls of the example's client end, in order, with: the no-credit error  *)
(* in InitialReady; credit 10 in TransactionStarted; the insufficient-     *)
(* credit error with credit 10; credit 15; Soda 1, credit 0, InitialReady; *)
(* credit 10; credit 15; Soda 0, OutOfStock; the machine-out-of-stock      *)
(* error with the credit as it was.                                        *)
(***************************************************************************)
Outcome(error, st, cr, soda) ==
    [error |-> error, state |-> st, credit |-> cr, soda |-> soda]

ScenarioOutcomes ==
    << Outcome(NoCreditError, InitialReadyState, 0, 2),
       Outcome(NoError, TransactionStarted, 10, 2),
       Outcome(InsufficientCreditError, TransactionStarted, 10, 2),
       Outcome(NoError, TransactionStarted, 15, 2),
       Outcome(NoError, InitialReadyState, 0, 1),
       Outcome(NoError, TransactionStarted, 10, 1),
       Outcome(NoError, TransactionStarted, 15, 1),
       Outcome(NoError, OutOfStock, 0, 0),
       Outcome(StopInsertingCoins, OutOfStock, 0, 0) >>

C18_Scenario ==
    scenario \in 1..Len(Script) =>
        /\ Outcome(call.error, state, credit, CountOf(inventory, "Soda"))
               = ScenarioOutcomes[scenario]
        /\ CountOf(inventory, "Nuts") = 0
        /\ call.op = Script[scenario].op /\ call.arg = Script[scenario].arg

\* The client has made all its calls.
C18_Witness == scenario = Len(Script)

(***************************************************************************)
(* C19: a request() of a client that awaits each request calls the real    *)
(* service only if no response is cached or the cached one is older than   *)
(* the expiration time; every other request returns the cached response,   *)
(* leaves the cache as it is and does not call the real service.           *)
(***************************************************************************)
CacheIsFresh ==
    /\ cachedResponse # <<>>
    /\ now - cacheDate[1] <= expirationTimeInMillis

C19_RequestStep ==
    /\ realCallDates' # realCallDates =>
           (requests' = requests + 1 /\ ~CacheIsFresh)
    /\ (requests' = requests + 1 /\ CacheIsFresh) =>
           /\ realCallDates' = realCallDates
           /\ awaiting' = <<>>
           /\ completed' # <<>>
           /\ completed'[1].response = cachedResponse
           /\ ~completed'[1].calledReal
           /\ cachedResponse' = cachedResponse /\ cacheDate' = cacheDate

C19_CachedUntilExpired == [][C19_RequestStep]_vars

\* A request made exactly one expiration time after the response was cached
\* is answered from the cache.
C19_Witness ==
    /\ completed # <<>>
    /\ ~completed[1].calledReal
    /\ completed[1].found.cachedResponse # <<>>
    /\ completed[1].initialTime
           = completed[1].found.cacheDate[1] + expirationTimeInMillis
    /\ completed[1].response = cachedResponse
    /\ Len(realCallDates) = 1

(***************************************************************************)
(* C20, as stated: in the chain Basic -> ApiKey -> Jwt, handle returns     *)
(* success with the message of the first handler whose credential matches  *)
(* the request, and the failure 'Unable to authenticate user.' if none     *)
(* matches; it does not end in any other way.                              *)
(***************************************************************************)
TheChain ==
    [h \in Handlers |->
        CASE h = BasicAuthenticationHandler -> <<ApiKeyAuthenticationHandler>>
          [] h = ApiKeyAuthenticationHandler -> <<JwtAuthenticationHandler>>
          [] h = JwtAuthenticationHandler -> <<>>]

Authenticated(request) ==
    IF request.user # <<>> /\ request.user[1] = [name |-> "admin", password |-> "password"]
    THEN AuthenticationResult(TRUE, BasicMessage)
    ELSE IF request.apiKey = <<"my-api-key">>
    THEN AuthenticationResult(TRUE, ApiKeyMessage)
    ELSE IF request.jwtToken = <<"my-jwt-token">>
    THEN AuthenticationResult(TRUE, JwtMessage)
    ELSE AuthenticationResult(FALSE, UnableMessage)

C20_Original ==
    (/\ handled # <<>>
     /\ nextHandler = TheChain
     /\ handled[1].handler = BasicAuthenticationHandler)
    => /\ handled[1].outcome.error = ""
       /\ handled[1].outcome.result = <<Authenticated(handled[1].request)>>

(***************************************************************************)
(* C21: undo() gives the employee the salary and the limit it had at the   *)
(* most recent backup() not yet undone and takes that memento out of the   *)
(* history, so that the history holds one memento for each backup not yet  *)
(* undone and k undos after k backups lead back to the employee of the     *)
(* first backup with an empty history.                                     *)
(***************************************************************************)
C21_UndoStep ==
    (mementoCall'.op = "undo" /\ backups # <<>>) =>
        /\ salary' = backups[Len(backups)].salary
        /\ monthlyExpensesLimit' = backups[Len(backups)].monthlyExpensesLimit
        /\ Len(employeeMementos') = Len(employeeMementos) - 1

C21_LastInFirstOut ==
    [][C21_UndoStep /\ Len(employeeMementos') = Len(backups')]_vars

\* An undo that changed the employee, to what it was at the later of several
\* backups and not to what it was at the first one.
C21_Witness ==
    /\ mementoCall.op = "undo"
    /\ mementoCall.found >= 2
    /\ mementoCall.was # Employee
    /\ employeeMementos[1].state # Employee

(***************************************************************************)
(* C22: undo() on an empty history leaves the salary, the limit and the    *)
(* history as they are.                                                    *)
(***************************************************************************)
C22_EmptyUndoStep ==
    (mementoCall'.op = "undo" /\ employeeMementos = <<>>) =>
        /\ salary' = salary
        /\ monthlyExpensesLimit' = monthlyExpensesLimit
        /\ employeeMementos' = <<>>

C22_EmptyUndo == [][C22_EmptyUndoStep]_vars

\* An undo that found no memento, on an employee whose salary and limit
\* have been raised.
C22_Witness ==
    /\ mementoCall.op = "undo"
    /\ mementoCall.found = 0
    /\ employeeMementos = <<>>
    /\ salary = 100000
    /\ monthlyExpensesLimit = 100

(***************************************************************************)
(* C23, as stated: whatever the interleaving of the calls of request(),    *)
(* the real service is called at most once per expiration window, that is, *)
(* no two calls of the real service are within one expiration time of each *)
(* other.                                                                  *)
(***************************************************************************)
C23_Original ==
    \A i, j \in 1..Len(realCallDates) :
        i < j => realCallDates[j] - realCallDates[i] > expirationTimeInMillis

(***************************************************************************)
(* C24: in InitialReadyState and in OutOfStock the credit is 0, and in     *)
(* TransactionStarted it is more than 0.                                   *)
(***************************************************************************)
C24_CreditOfState ==
    /\ state \in {InitialReadyState, OutOfStock} => credit = 0
    /\ state = TransactionStarted => credit > 0

\* A dispense paid with more than the price: the machine is ready again and
\* nothing is left of the credit.
C24_Witness ==
    /\ DidDispense
    /\ state = InitialReadyState
    /\ prev.credit > call.arg.value
    /\ credit = 0

(***************************************************************************)
(* C25: a machine built with at least one item is in OutOfStock exactly    *)
(* when isOutOfStock() is true, that is, when every count is 0.            *)
(***************************************************************************)
C25_OutOfStockIffEmpty ==
    units >= 1 => (state = OutOfStock <=> AllCountsZero(inventory))

\* A machine built with several products in stock has sold its last item.
C25_Witness ==
    /\ units >= 2
    /\ state = OutOfStock
    /\ AllCountsZero(inventory)
    /\ Len(inventory) >= 2
    /\ prev.state = TransactionStarted

(***************************************************************************)
(* C26: a machine built with every count at 0 starts in InitialReadyState, *)
(* takes coins and never is in OutOfStock; every selectProduct on it fails *)
(* with the no-credit, the insufficient-credit or the out-of-stock error   *)
(* of the call, never with an error of the OutOfStock state.               *)
(***************************************************************************)
C26_BuiltEmpty ==
    units = 0 =>
        /\ state # OutOfStock
        /\ call.op = "new" => state = InitialReadyState
        /\ Coined => (Succeeded /\ state = TransactionStarted)
        /\ Selected => call.error \in {NoCreditError, InsufficientCreditError,
                                       OutOfStockError}
        /\ call.error \notin MachineOutOfStockError

\* On a machine built with entries that are all empty, a paid selection has
\* failed for lack of the product.
C26_Witness ==
    /\ units = 0
    /\ inventory # <<>>
    /\ Selected
    /\ call.error = OutOfStockError
    /\ state = TransactionStarted

(***************************************************************************)
(* C27: the counts of the inventory add up to the number of items the      *)
(* machine was built with less the number of selectProduct calls that have *)
(* succeeded; no more calls succeed than there were items, and a machine   *)
(* built with N >= 1 items is in OutOfStock exactly from the N-th success  *)
(* on.                                                                     *)
(***************************************************************************)
C27_UnitsAccount ==
    /\ SumItems(inventory, 1..Len(inventory)) = units - successes
    /\ successes <= units
    /\ units >= 1 => (state = OutOfStock <=> successes = units)

\* The third of three items has just been dispensed.
C27_Witness ==
    /\ units = 3
    /\ successes = 3
    /\ DidDispense
    /\ state = OutOfStock

(***************************************************************************)
(* C28: on the example's machine (Soda: 2, Nuts: 0; nickels and dimes), a  *)
(* client that keeps inserting coins and keeps selecting an in-stock       *)
(* product the credit pays for gets, from every state other than           *)
(* OutOfStock, one more product dispensed, and the machine ends up in      *)
(* OutOfStock.                                                             *)
(***************************************************************************)
C28_Progress ==
    /\ \A k \in 0..MaxStock :
           (state # OutOfStock /\ successes = k) ~> (successes > k)
    /\ <>(state = OutOfStock)

\* Both sodas of the example have been dispensed.
C28_Witness ==
    /\ inventory = <<InventoryItem(NUTS, 0), InventoryItem(SODA, 0)>>
    /\ successes = 2
    /\ state = OutOfStock

(***************************************************************************)
(* C29: publish() takes a document from DraftState to ModerationState,     *)
(* from ModerationState to PublishedState, and leaves a published document *)
(* published; render() leaves the state as it is.                          *)
(***************************************************************************)
C29_CallStep ==
    /\ documentCall' = "publish" =>
           documentState' = (CASE documentState = DraftState -> ModerationState
                               [] documentState = ModerationState -> PublishedState
                               [] documentState = PublishedState -> PublishedState)
    /\ documentCall' = "render" => documentState' = documentState

C29_Publish == [][C29_CallStep]_vars

\* publish() has been called on a published document.
C29_Witness ==
    /\ documentState = PublishedState
    /\ documentCall = "publish"
    /\ console[Len(console)]
           = "The document is already in Published state. Nothing to do."

(***************************************************************************)
(* C30, as stated: remove(c) of a component that is not a child leaves the *)
(* children, and so the price, as they are; remove(c) of a child takes     *)
(* exactly that child (its first occurrence) out of the children.          *)
(***************************************************************************)
IsChild(children, component) ==
    \E i \in 1..Len(children) : children[i] = component

\* The children without the i-th one.
Without(children, i) ==
    [k \in 1..(Len(children) - 1) |->
        IF k < i THEN children[k] ELSE children[k + 1]]

C30_Original_Step ==
    packageCall'.op = "remove" =>
        IF IsChild(childrenPackages, packageCall'.arg)
        THEN \E i \in 1..Len(childrenPackages) :
                 /\ childrenPackages[i] = packageCall'.arg
                 /\ \A j \in 1..(i - 1) : childrenPackages[j] # packageCall'.arg
                 /\ childrenPackages' = Without(childrenPackages, i)
        ELSE /\ childrenPackages' = childrenPackages
             /\ getPrice(childrenPackages') = packageCall'.price

C30_Original == [][C30_Original_Step]_vars

====
